---- MODULE Spec2Model ----
(***************************************************************************)
(* hll_server_status: Map identity, rotation position estimator and the    *)
(* four display renderers (models.py, utils.py).                           *)
(*                                                                         *)
(* A map name is a sequence of lexical units.  The units are the literals  *)
(* the code tests for ("Untitled_" of the map-change pattern, a digit,     *)
(* "_RESTART") and whole map stems; "x" is any other text.                 *)
(* Rotation positions are 0-based as in the source: the entry at position  *)
(* i is rotation[i + 1].                                                   *)
(***************************************************************************)
EXTENDS Integers, Sequences, FiniteSets, TLC

VARIABLES
    v_in,                   \* Map: the raw_name handed to the validator
    map_out,                \* Map: outcome of the construction
    reparsed,               \* Map: outcome of constructing again from map_out
    est,                    \* estimator: arguments, results and position
    renderer,               \* the renderer that was called, "" before a call
    pc,                     \* where the call stands: idle, an await, done
    config,                 \* config.display.<section> of the call
    calls,                  \* the get_api_result calls of the render, in order
    map_rotation,           \* parse_map_rotation(result)
    gamestate,              \* parse_gamestate(result): current_map, next_map
    current_map_positions,
    next_map_positions,
    embed,                  \* the discord.Embed under construction
    opt_idx,                \* 1-based place in config.embeds of the loop
    out                     \* what the call gave: a returned pair or an error

mapVars == <<v_in, map_out, reparsed>>
renderVars == <<renderer, pc, config, calls, map_rotation, gamestate,
                current_map_positions, next_map_positions, embed, opt_idx, out>>
vars == <<v_in, map_out, reparsed, est, renderer, pc, config, calls,
          map_rotation, gamestate, current_map_positions, next_map_positions,
          embed, opt_idx, out>>

----------------------------------------------------------------------------
(* Bounds *)

MaxRawLen == 3
MaxRotationLen == 4
MaxEmbeds == 2

----------------------------------------------------------------------------
(* constants.py *)

BETWEEN_MATCHES_MAP_NAME == <<"between_matches">>

MAP_RESTART_SUFFIX == <<"_RESTART">>

FOY == <<"foy_warfare">>
KURSK == <<"kursk_offensive_rus">>
HILL400 == <<"hill400_warfare">>

ALL_MAPS == {FOY, KURSK, HILL400, BETWEEN_MATCHES_MAP_NAME}

Digits == {"7"}

Units == {"Untitled_", "7", "_RESTART", "x",
          "foy_warfare", "kursk_offensive_rus", "between_matches"}

RECURSIVE SeqsUpTo(_, _)
SeqsUpTo(S, n) ==
    IF n = 0 THEN {<<>>}
    ELSE LET shorter == SeqsUpTo(S, n - 1)
         IN  shorter \cup {Append(s, u) : s \in shorter, u \in S}

RawNames == SeqsUpTo(Units, MaxRawLen)

----------------------------------------------------------------------------
(* models.py: Map.must_be_valid_map_name *)

\* re.match(r"Untitled_\d+", v): anchored at the start only, at least one digit
map_change_match(v) ==
    /\ Len(v) >= 2
    /\ v[1] = "Untitled_"
    /\ v[2] \in Digits

restart_maps == {map_name \o MAP_RESTART_SUFFIX : map_name \in ALL_MAPS}

\* v.replace("_RESTART", ""): every occurrence is removed
replace_RESTART(v) == SelectSeq(v, LAMBDA u : u # "_RESTART")

Accepted(v) == [status |-> "ok", raw_name |-> v]
InvalidMapName == [status |-> "ValueError", raw_name |-> <<>>]
NotConstructed == [status |-> "none", raw_name |-> <<>>]

must_be_valid_map_name_unstripped(v) ==
    IF map_change_match(v) THEN Accepted(BETWEEN_MATCHES_MAP_NAME)
    ELSE IF v \notin ALL_MAPS THEN InvalidMapName
    ELSE Accepted(v)

must_be_valid_map_name_prefix(v) ==
    IF map_change_match(v) THEN Accepted(SubSeq(v, 1, 1))
    ELSE LET w == IF v \in restart_maps THEN replace_RESTART(v) ELSE v
         IN  IF w \notin ALL_MAPS THEN InvalidMapName ELSE Accepted(w)

must_be_valid_map_name(v) ==
    IF map_change_match(v) THEN Accepted(BETWEEN_MATCHES_MAP_NAME)
    ELSE LET w == IF v \in restart_maps THEN replace_RESTART(v) ELSE v
         IN  IF w \notin ALL_MAPS THEN InvalidMapName ELSE Accepted(w)

\* Map(raw_name=v)
ConstructMap ==
    /\ map_out.status = "none"
    /\ map_out' = must_be_valid_map_name(v_in)
    /\ UNCHANGED <<v_in, reparsed, est>>
    /\ UNCHANGED renderVars

\* Map(raw_name=m.raw_name) for an already constructed Map m
ReconstructMap ==
    /\ map_out.status = "ok"
    /\ reparsed.status = "none"
    /\ reparsed' = must_be_valid_map_name(map_out.raw_name)
    /\ UNCHANGED <<v_in, map_out, est>>
    /\ UNCHANGED renderVars

----------------------------------------------------------------------------
(* utils.py: the rotation position estimator *)

\* the Map values a game state can hold, by raw_name
Maps == ALL_MAPS

\* the Map values of a rotation
RotationMaps == ALL_MAPS \ {BETWEEN_MATCHES_MAP_NAME}

Rotations == SeqsUpTo(RotationMaps, MaxRotationLen)

\* list.count
count(names, name) == Cardinality({i \in 1..Len(names) : names[i] = name})

\* list.index, 0-based
index(names, name) ==
    (CHOOSE i \in 1..Len(names) :
        /\ names[i] = name
        /\ \A j \in 1..(i - 1) : names[j] # name) - 1

\* the for loop of lines 54-68 from 0-based index idx on
RECURSIVE current_map_idxs_from(_, _, _)
current_map_idxs_from(raw_names, next_name, idx) ==
    IF idx >= Len(raw_names) THEN <<>>
    ELSE IF raw_names[idx + 1] = next_name
         THEN <<IF idx = 0 THEN Len(raw_names) - 1 ELSE idx - 1>>
              \o current_map_idxs_from(raw_names, next_name, idx + 1)
         ELSE current_map_idxs_from(raw_names, next_name, idx + 1)

RECURSIVE current_map_idxs_nowrap(_, _, _)
current_map_idxs_nowrap(raw_names, next_name, idx) ==
    IF idx >= Len(raw_names) THEN <<>>
    ELSE IF raw_names[idx + 1] = next_name /\ idx # 0
         THEN <<idx - 1>> \o current_map_idxs_nowrap(raw_names, next_name, idx + 1)
         ELSE current_map_idxs_nowrap(raw_names, next_name, idx + 1)

guess_current_index_from_one(rotation, current_map, next_map) ==
    IF current_map = BETWEEN_MATCHES_MAP_NAME THEN <<>>
    ELSE IF count(rotation, current_map) = 1
         THEN <<index(rotation, current_map) + 1>>
         ELSE current_map_idxs_from(rotation, next_map, 0)

guess_current_nowrap(rotation, current_map, next_map) ==
    IF current_map = BETWEEN_MATCHES_MAP_NAME THEN <<>>
    ELSE IF count(rotation, current_map) = 1
         THEN <<index(rotation, current_map)>>
         ELSE current_map_idxs_nowrap(rotation, next_map, 0)

guess_current_no_sentinel(rotation, current_map, next_map) ==
    IF count(rotation, current_map) = 1
    THEN <<index(rotation, current_map)>>
    ELSE current_map_idxs_from(rotation, next_map, 0)

guess_current_all_occurrences(rotation, current_map, next_map) ==
    IF current_map = BETWEEN_MATCHES_MAP_NAME THEN <<>>
    ELSE IF count(rotation, current_map) = 1
         THEN <<index(rotation, current_map)>>
         ELSE SelectSeq([k \in 1..Len(rotation) |-> k - 1],
                        LAMBDA i : rotation[i + 1] = current_map)

guess_current_map_rotation_positions(rotation, current_map, next_map) ==
    IF current_map = BETWEEN_MATCHES_MAP_NAME THEN <<>>
    ELSE IF count(rotation, current_map) = 1
         THEN <<index(rotation, current_map)>>
         ELSE current_map_idxs_from(rotation, next_map, 0)

guess_next_no_wrap(positions, rotation) ==
    [k \in 1..Len(positions) |-> positions[k] + 1]

\* positions: the parameter current_map_positions
guess_next_map_rotation_positions(positions, rotation) ==
    LET rotation_length == Len(rotation)
    IN  [k \in 1..Len(positions) |->
            IF positions[k] = rotation_length - 1
            THEN 0
            ELSE positions[k] + 1]

NoEstimate == [pc |-> "args", rotation |-> <<>>, current_map |-> <<>>,
               next_map |-> <<>>, current_map_positions |-> <<>>,
               next_map_positions |-> <<>>]

GuessCurrent ==
    /\ est.pc = "args"
    /\ est' = [est EXCEPT
                 !.pc = "current",
                 !.current_map_positions =
                     guess_current_map_rotation_positions(
                         est.rotation, est.current_map, est.next_map)]
    /\ UNCHANGED mapVars
    /\ UNCHANGED renderVars

GuessNext ==
    /\ est.pc = "current"
    /\ est' = [est EXCEPT
                 !.pc = "next",
                 !.next_map_positions =
                     guess_next_map_rotation_positions(
                         est.current_map_positions, est.rotation)]
    /\ UNCHANGED mapVars
    /\ UNCHANGED renderVars

----------------------------------------------------------------------------
(* utils.py: what the renderers share *)

\* constants.LONG_HUMAN_MAP_NAMES[raw_name] (Map.name): one name per map
LongName(raw_name) == <<"long">> \o raw_name

\* constants.MAP_TO_PICTURE over the stem of the raw name
MapPicture(raw_name) == <<"picture">> \o raw_name

\* get_api_result: a result, None, or an exception
FetchOutcomes == {"ok", "none", "raise"}

Call(endpoint, result) == [endpoint |-> endpoint, result |-> result]

GameStates == [current_map : Maps, next_map : Maps]
NoGameState == [current_map |-> <<>>, next_map |-> <<>>]

\* DisplayFooterConfig; text_empty: footer_text and last_refresh_text are ""
Footers == [enabled : BOOLEAN, include_timestamp : BOOLEAN, text_empty : BOOLEAN]

\* discord.Embed()
NewEmbed == [title |-> <<>>, fields |-> <<>>, image |-> <<>>,
             footer |-> FALSE, timestamp |-> FALSE]

add_field(e, name, value) ==
    [e EXCEPT !.fields = Append(@, [name |-> name, value |-> value])]

Pending == [outcome |-> "pending", error |-> "", text |-> <<>>, embed |-> <<>>]
Raised(error) == [outcome |-> "raised", error |-> error, text |-> <<>>, embed |-> <<>>]
\* return None, embed
ReturnedEmbed(e) == [outcome |-> "returned", error |-> "", text |-> <<>>, embed |-> <<e>>]
\* return text, None
ReturnedText(t) == [outcome |-> "returned", error |-> "", text |-> <<t>>, embed |-> <<>>]

\* the result of a fetch as the code after the await sees it: an exception of
\* get_api_result propagates, None fails in the parser
FailureOf(result) == IF result = "raise" THEN "FetchError" ELSE "ParserError"

get_map_picture_url(map) ==
    IF map = BETWEEN_MATCHES_MAP_NAME THEN <<>> ELSE MapPicture(map)

----------------------------------------------------------------------------
(* utils.py: build_header *)

DISPLAY_NAMES == {"name", "short_name"}
DISPLAY_EMBEDS == {"reserved_vip_slots", "current_vips"}

OPTIONS_TO_ENDPOINTS ==
    [o \in {"reserved_vip_slots", "current_vips"} |->
        IF o = "reserved_vip_slots" THEN "get_vip_slots_num" ELSE "get_vips_count"]

HeaderConfigs ==
    [server_name : DISPLAY_NAMES \cup {"bogus"},
     quick_connect_url : BOOLEAN,
     battlemetrics_url : BOOLEAN,
     embeds : SeqsUpTo(DISPLAY_EMBEDS \cup {"bogus"}, MaxEmbeds),
     footer : Footers]

\* DisplayHeaderConfig.must_be_valid_name, DisplayEmbedConfig.must_be_valid_embed
ValidHeaderConfig(cfg) ==
    /\ cfg.server_name \in DISPLAY_NAMES
    /\ \A k \in 1..Len(cfg.embeds) : cfg.embeds[k] \in DISPLAY_EMBEDS

\* match config.display.header.server_name: no case for any other value
header_title(e, server_name) ==
    IF server_name = "name" THEN [e EXCEPT !.title = <<"name">>]
    ELSE IF server_name = "short_name" THEN [e EXCEPT !.title = <<"short_name">>]
    ELSE e

header_urls(e, cfg) ==
    LET e1 == IF cfg.quick_connect_url
              THEN add_field(e, "quick_connect_name", <<"quick_connect_url">>) ELSE e
    IN  IF cfg.battlemetrics_url
        THEN add_field(e1, "battlemetrics_name", <<"battlemetrics_url">>) ELSE e1

header_footer(e, footer) ==
    LET footer_text == footer.enabled /\ ~footer.text_empty
    IN  IF footer.include_timestamp
        THEN [e EXCEPT !.footer = footer_text, !.timestamp = TRUE]
        ELSE e

\* the code from the end of one await to the next await, the return or an error
HeaderAfter(e, cfg, idx) ==
    IF idx > Len(cfg.embeds)
    THEN /\ out' = ReturnedEmbed(header_footer(e, cfg.footer))
         /\ embed' = header_footer(e, cfg.footer)
         /\ pc' = "done"
         /\ opt_idx' = idx
    ELSE IF cfg.embeds[idx] \notin DOMAIN OPTIONS_TO_ENDPOINTS
    THEN /\ out' = Raised("KeyError")
         /\ embed' = e
         /\ pc' = "done"
         /\ opt_idx' = idx
    ELSE /\ out' = Pending
         /\ embed' = e
         /\ pc' = "header_embed"
         /\ opt_idx' = idx

build_header ==
    /\ pc = "idle"
    /\ \E cfg \in HeaderConfigs, result \in FetchOutcomes :
          /\ renderer' = "header"
          /\ config' = cfg
          /\ calls' = <<Call("get_status", result)>>
          /\ IF result = "raise"
             THEN /\ out' = Raised("FetchError")
                  /\ pc' = "done"
                  /\ UNCHANGED <<embed, opt_idx>>
             ELSE IF result = "none"
             THEN /\ out' = Raised("ValueError")
                  /\ pc' = "done"
                  /\ UNCHANGED <<embed, opt_idx>>
             ELSE HeaderAfter(
                      header_urls(header_title(NewEmbed, cfg.server_name), cfg),
                      cfg, 1)
    /\ UNCHANGED <<map_rotation, gamestate, current_map_positions, next_map_positions>>
    /\ UNCHANGED <<mapVars, est>>

\* lines 162-166 for config.embeds[opt_idx]
build_header_embed ==
    /\ pc = "header_embed"
    /\ \E result \in FetchOutcomes :
          LET option == config.embeds[opt_idx]
              endpoint == OPTIONS_TO_ENDPOINTS[option]
          IN  /\ calls' = Append(calls, Call(endpoint, result))
              /\ IF result # "ok"
                 THEN /\ out' = Raised(FailureOf(result))
                      /\ pc' = "done"
                      /\ UNCHANGED <<embed, opt_idx>>
                 ELSE HeaderAfter(add_field(embed, option, <<endpoint>>),
                                  config, opt_idx + 1)
    /\ UNCHANGED <<renderer, config, map_rotation, gamestate,
                   current_map_positions, next_map_positions>>
    /\ UNCHANGED <<mapVars, est>>

----------------------------------------------------------------------------
(* utils.py: build_gamestate *)

EMPTY_EMBED == "empty"

GAMESTATE_EMBEDS ==
    {"slots", EMPTY_EMBED, "score", "current_map", "next_map", "time_remaining",
     "num_allied_players", "num_axis_players"}

US_MAPS == {FOY, HILL400}
RUSSIAN_MAPS == {KURSK}

GamestateConfigs ==
    [image : BOOLEAN,
     score_format_ger_us : BOOLEAN,
     score_format_ger_rus : BOOLEAN,
     embeds : SeqsUpTo(GAMESTATE_EMBEDS \cup {"bogus"}, MaxEmbeds),
     footer : Footers]

\* GamestateEmbedConfig.must_be_valid_embed
ValidGamestateConfig(cfg) ==
    \A k \in 1..Len(cfg.embeds) : cfg.embeds[k] \in GAMESTATE_EMBEDS

\* lines 205-221: the template the score is formatted with
score_format(cfg, gs) ==
    IF cfg.score_format_ger_us /\ gs.current_map \in US_MAPS
    THEN "score_format_ger_us"
    ELSE IF cfg.score_format_ger_rus /\ gs.current_map \in RUSSIAN_MAPS
    THEN "score_format_ger_rus"
    ELSE "score_format"

\* lines 203-233: the value of an option that needs no fetch
gamestate_value(option, cfg, gs) ==
    IF option = EMPTY_EMBED THEN <<option>>
    ELSE IF option = "score" THEN <<score_format(cfg, gs)>>
    ELSE IF option = "current_map" THEN LongName(gs.current_map)
    ELSE IF option = "next_map" THEN LongName(gs.next_map)
    ELSE <<option>>

gamestate_footer(e, footer) ==
    IF footer.enabled /\ footer.include_timestamp
    THEN [e EXCEPT !.footer = ~footer.text_empty, !.timestamp = TRUE]
    ELSE e

\* the for loop of lines 198-239 from config.embeds[idx] up to the next
\* await (a slots option), an invalid option, or the end of the list
RECURSIVE gamestate_loop(_, _, _, _)
gamestate_loop(e, cfg, gs, idx) ==
    IF idx > Len(cfg.embeds) THEN [at |-> "end", embed |-> e, idx |-> idx]
    ELSE IF cfg.embeds[idx] = "slots" THEN [at |-> "await", embed |-> e, idx |-> idx]
    ELSE IF cfg.embeds[idx] \in
              {EMPTY_EMBED, "score", "current_map", "next_map", "time_remaining",
               "num_allied_players", "num_axis_players"}
    THEN gamestate_loop(
             add_field(e, cfg.embeds[idx], gamestate_value(cfg.embeds[idx], cfg, gs)),
             cfg, gs, idx + 1)
    ELSE [at |-> "raise", embed |-> e, idx |-> idx]

GamestateAfter(e, cfg, gs, idx) ==
    LET l == gamestate_loop(e, cfg, gs, idx)
    IN  /\ opt_idx' = l.idx
        /\ IF l.at = "end"
           THEN /\ out' = ReturnedEmbed(gamestate_footer(l.embed, cfg.footer))
                /\ embed' = gamestate_footer(l.embed, cfg.footer)
                /\ pc' = "done"
           ELSE IF l.at = "raise"
           THEN /\ out' = Raised("ValueError")
                /\ embed' = l.embed
                /\ pc' = "done"
           ELSE /\ out' = Pending
                /\ embed' = l.embed
                /\ pc' = "gamestate_slots"

build_gamestate ==
    /\ pc = "idle"
    /\ \E cfg \in GamestateConfigs, result \in FetchOutcomes, gs \in GameStates :
          /\ renderer' = "gamestate"
          /\ config' = cfg
          /\ calls' = <<Call("get_gamestate", result)>>
          /\ IF result # "ok"
             THEN /\ out' = Raised(FailureOf(result))
                  /\ pc' = "done"
                  /\ UNCHANGED <<embed, opt_idx, gamestate>>
             ELSE /\ gamestate' = gs
                  /\ GamestateAfter(
                        IF cfg.image
                        THEN [NewEmbed EXCEPT
                                 !.image = get_map_picture_url(gs.current_map)]
                        ELSE NewEmbed,
                        cfg, gs, 1)
    /\ UNCHANGED <<map_rotation, current_map_positions, next_map_positions>>
    /\ UNCHANGED <<mapVars, est>>

build_gamestate_slots_swallow ==
    /\ pc = "gamestate_slots"
    /\ \E result \in FetchOutcomes :
          /\ calls' = Append(calls, Call("get_slots", result))
          /\ IF result # "ok"
             THEN GamestateAfter(embed, config, gamestate, opt_idx + 1)
             ELSE GamestateAfter(add_field(embed, "slots", <<"player_count/max_players">>),
                                 config, gamestate, opt_idx + 1)
    /\ UNCHANGED <<renderer, config, map_rotation, gamestate,
                   current_map_positions, next_map_positions>>
    /\ UNCHANGED <<mapVars, est>>

\* lines 200-202 and 239 for the slots option at config.embeds[opt_idx]
build_gamestate_slots ==
    /\ pc = "gamestate_slots"
    /\ \E result \in FetchOutcomes :
          /\ calls' = Append(calls, Call("get_slots", result))
          /\ IF result # "ok"
             THEN /\ out' = Raised(FailureOf(result))
                  /\ pc' = "done"
                  /\ UNCHANGED <<embed, opt_idx>>
             ELSE GamestateAfter(add_field(embed, "slots", <<"player_count/max_players">>),
                                 config, gamestate, opt_idx + 1)
    /\ UNCHANGED <<renderer, config, map_rotation, gamestate,
                   current_map_positions, next_map_positions>>
    /\ UNCHANGED <<mapVars, est>>

----------------------------------------------------------------------------
(* utils.py: build_map_rotation_color *)

ColorConfigs ==
    [display_title : BOOLEAN, display_legend : BOOLEAN,
     display_last_refreshed : BOOLEAN]

\* constants.COLOR_TO_CODE_BLOCK[config...<role>_map_color]
ColorStyle(role) == <<"style", role>>

\* lines 297-306: one fenced block per rotation entry
RECURSIVE color_blocks(_, _, _, _)
color_blocks(rotation, current_positions, next_positions, idx) ==
    IF idx >= Len(rotation) THEN <<>>
    ELSE LET style == IF \E k \in 1..Len(current_positions) :
                            current_positions[k] = idx
                      THEN ColorStyle("current_map_color")
                      ELSE IF \E k \in 1..Len(next_positions) :
                                 next_positions[k] = idx
                      THEN ColorStyle("next_map_color")
                      ELSE ColorStyle("other_map_color")
         IN  <<[block |-> "fence", style |-> style,
                name |-> LongName(rotation[idx + 1])]>>
             \o color_blocks(rotation, current_positions, next_positions, idx + 1)

\* lines 259-262: the call logs and raises before any fetch; lines 263-323
\* are never run
build_map_rotation_color ==
    /\ pc = "idle"
    /\ \E cfg \in ColorConfigs :
          /\ renderer' = "color"
          /\ config' = cfg
          /\ calls' = <<>>
          /\ out' = Raised("Exception")
          /\ pc' = "done"
    /\ UNCHANGED <<map_rotation, gamestate, current_map_positions,
                   next_map_positions, embed, opt_idx>>
    /\ UNCHANGED <<mapVars, est>>

----------------------------------------------------------------------------
(* utils.py: build_map_rotation_embed *)

EmbedConfigs ==
    [display_legend : BOOLEAN, bm_banner_enabled : BOOLEAN, footer : Footers]

\* config.display.map_rotation.embed.<template>.format(map.name, idx + 1)
Line(template, raw_name, idx) ==
    [template |-> template, name |-> LongName(raw_name), number |-> idx + 1]

Legend == [template |-> "legend", name |-> <<>>, number |-> 0]

In(idx, positions) == \E k \in 1..Len(positions) : positions[k] = idx

description_next_first(rotation, current_positions, next_positions) ==
    [k \in 1..Len(rotation) |->
        IF In(k - 1, next_positions)
        THEN Line("next_map", rotation[k], k - 1)
        ELSE IF In(k - 1, current_positions)
        THEN Line("current_map", rotation[k], k - 1)
        ELSE Line("other_map", rotation[k], k - 1)]

\* lines 351-365
description_lines(rotation, current_positions, next_positions) ==
    [k \in 1..Len(rotation) |->
        IF In(k - 1, current_positions)
        THEN Line("current_map", rotation[k], k - 1)
        ELSE IF In(k - 1, next_positions)
        THEN Line("next_map", rotation[k], k - 1)
        ELSE Line("other_map", rotation[k], k - 1)]

\* lines 349-386
map_rotation_embed(cfg, rotation, current_positions, next_positions) ==
    LET lines == description_lines(rotation, current_positions, next_positions)
        description == IF cfg.display_legend THEN Append(lines, Legend) ELSE lines
        e1 == [NewEmbed EXCEPT
                 !.fields = <<[name |-> "title", value |-> description]>>]
        e2 == IF cfg.bm_banner_enabled
              THEN [e1 EXCEPT !.image = <<"bm_banner_url", "?id=", "timestamp">>]
              ELSE e1
    IN  gamestate_footer(e2, cfg.footer)

build_map_rotation_embed ==
    /\ pc = "idle"
    /\ \E cfg \in EmbedConfigs, result \in FetchOutcomes, rotation \in Rotations :
          /\ renderer' = "embed"
          /\ config' = cfg
          /\ calls' = <<Call("get_map_rotation", result)>>
          /\ IF result # "ok"
             THEN /\ out' = Raised(FailureOf(result))
                  /\ pc' = "done"
                  /\ UNCHANGED map_rotation
             ELSE /\ map_rotation' = rotation
                  /\ out' = Pending
                  /\ pc' = "embed_gamestate"
    /\ UNCHANGED <<gamestate, current_map_positions, next_map_positions,
                   embed, opt_idx>>
    /\ UNCHANGED <<mapVars, est>>

\* lines 336-388
build_map_rotation_embed_gamestate ==
    /\ pc = "embed_gamestate"
    /\ \E result \in FetchOutcomes, gs \in GameStates :
          /\ calls' = Append(calls, Call("get_gamestate", result))
          /\ pc' = "done"
          /\ IF result # "ok"
             THEN /\ out' = Raised(FailureOf(result))
                  /\ UNCHANGED <<gamestate, current_map_positions,
                                 next_map_positions, embed>>
             ELSE LET cur == guess_current_map_rotation_positions(
                                 map_rotation, gs.current_map, gs.next_map)
                      nxt == guess_next_map_rotation_positions(cur, map_rotation)
                      e == map_rotation_embed(config, map_rotation, cur, nxt)
                  IN  /\ gamestate' = gs
                      /\ current_map_positions' = cur
                      /\ next_map_positions' = nxt
                      /\ embed' = e
                      /\ out' = ReturnedEmbed(e)
    /\ UNCHANGED <<renderer, config, map_rotation, opt_idx>>
    /\ UNCHANGED <<mapVars, est>>

----------------------------------------------------------------------------
(* Specifications *)

RenderIdle ==
    /\ renderer = ""
    /\ pc = "idle"
    /\ config = <<>>
    /\ calls = <<>>
    /\ map_rotation = <<>>
    /\ gamestate = NoGameState
    /\ current_map_positions = <<>>
    /\ next_map_positions = <<>>
    /\ embed = NewEmbed
    /\ opt_idx = 1
    /\ out = Pending

MapInit ==
    /\ RenderIdle
    /\ v_in \in RawNames
    /\ map_out = NotConstructed
    /\ reparsed = NotConstructed
    /\ est = NoEstimate

MapNext == ConstructMap \/ ReconstructMap

SpecMap == MapInit /\ [][MapNext]_vars

GuessInit ==
    /\ RenderIdle
    /\ v_in = <<>>
    /\ map_out = NotConstructed
    /\ reparsed = NotConstructed
    /\ \E r \in Rotations, c \in Maps, n \in Maps :
          est = [NoEstimate EXCEPT
                    !.rotation = r, !.current_map = c, !.next_map = n]

GuessNextStep == GuessCurrent \/ GuessNext

SpecGuess == GuessInit /\ [][GuessNextStep]_vars

Init ==
    /\ RenderIdle
    /\ v_in = <<>>
    /\ map_out = NotConstructed
    /\ reparsed = NotConstructed
    /\ est = NoEstimate

Next ==
    \/ build_header
    \/ build_header_embed
    \/ build_gamestate
    \/ build_gamestate_slots
    \/ build_map_rotation_color
    \/ build_map_rotation_embed
    \/ build_map_rotation_embed_gamestate

Spec == Init /\ [][Next]_vars

----------------------------------------------------------------------------
(* Properties of the estimator, checked under SpecGuess *)

NoDuplicates(names) ==
    \A i, j \in 1..Len(names) : names[i] = names[j] => i = j

Occurs(names, name) == \E i \in 1..Len(names) : names[i] = name

Range(s) == {s[k] : k \in 1..Len(s)}

\* C1: in a rotation without duplicate entries, a non-sentinel current map
\* that occurs in it gets exactly one position, the unique index where the
\* rotation holds the current map, whatever the next map is.
C1_UniquePosition ==
    ( /\ est.pc # "args"
      /\ NoDuplicates(est.rotation)
      /\ est.current_map # BETWEEN_MATCHES_MAP_NAME
      /\ Occurs(est.rotation, est.current_map) )
    => /\ Len(est.current_map_positions) = 1
       /\ est.current_map_positions[1] \in 0..(Len(est.rotation) - 1)
       /\ est.rotation[est.current_map_positions[1] + 1] = est.current_map

C1_Witness ==
    /\ est.pc # "args"
    /\ NoDuplicates(est.rotation)
    /\ Len(est.rotation) = 3
    /\ est.rotation[3] = est.current_map
    /\ est.next_map = est.rotation[2]
    /\ est.current_map_positions = <<2>>

\* C2: when the current map occurs more than once in the rotation, the
\* positions returned are exactly { (i - 1) mod len : rotation[i] = next },
\* one per occurrence of the next map, index 0 wrapping to the last index,
\* none repeated and none dropped.
C2_Candidates ==
    ( /\ est.pc # "args"
      /\ count(est.rotation, est.current_map) > 1 )
    => LET n == Len(est.rotation)
           expected == {(i - 1) % n :
                           i \in {j \in 0..(n - 1) :
                                     est.rotation[j + 1] = est.next_map}}
       IN  /\ Range(est.current_map_positions) = expected
           /\ Len(est.current_map_positions) = Cardinality(expected)
           /\ Len(est.current_map_positions)
                  = count(est.rotation, est.next_map)

C2_Witness ==
    /\ est.pc # "args"
    /\ count(est.rotation, est.current_map) > 1
    /\ est.rotation[1] = est.next_map
    /\ est.current_map_positions = <<3, 1>>

\* C3: the next positions are, entry by entry and in the same order, the
\* current positions plus one modulo the rotation length; in a rotation of
\* length 1 current and next position are both index 0.
C3_NextIsSuccessor ==
    est.pc = "next"
    => LET n == Len(est.rotation)
           cur == est.current_map_positions
           nxt == est.next_map_positions
       IN  /\ Len(nxt) = Len(cur)
           /\ \A k \in 1..Len(cur) : nxt[k] = (cur[k] + 1) % n
           /\ n = 1 => /\ \A k \in 1..Len(cur) : cur[k] = 0
                       /\ \A k \in 1..Len(nxt) : nxt[k] = 0

C3_Witness ==
    /\ est.pc = "next"
    /\ Len(est.rotation) >= 3
    /\ Len(est.current_map_positions) = 2
    /\ est.current_map_positions[1] = Len(est.rotation) - 1
    /\ est.next_map_positions[1] = 0
    /\ est.next_map_positions[2] = est.current_map_positions[2] + 1

\* C4: with the between-matches sentinel as current map, the current
\* positions are empty and so are the next positions derived from them, for
\* every rotation and every next map.
C4_SentinelEmpty ==
    est.current_map = BETWEEN_MATCHES_MAP_NAME
    => /\ est.pc # "args" => est.current_map_positions = <<>>
       /\ est.pc = "next" => est.next_map_positions = <<>>

C4_Witness ==
    /\ est.pc = "next"
    /\ est.current_map = BETWEEN_MATCHES_MAP_NAME
    /\ Len(est.rotation) >= 2
    /\ Occurs(est.rotation, est.next_map)
    /\ est.current_map_positions = <<>>
    /\ est.next_map_positions = <<>>

----------------------------------------------------------------------------
(* Properties of Map, checked under SpecMap *)

\* C5: a raw name matching the map-change pattern becomes the sentinel;
\* otherwise a known map name plus the restart suffix loses the suffix;
\* the value is accepted only if it is in the map vocabulary and every
\* other raw name is rejected; the stored raw_name is the normalized
\* identifier, not the raw string.
C5_NormalizationOrder ==
    map_out.status # "none"
    => /\ (map_out.status = "ok" /\ ~map_change_match(v_in))
              => map_out.raw_name \in ALL_MAPS
       /\ IF map_change_match(v_in)
          THEN map_out = Accepted(BETWEEN_MATCHES_MAP_NAME)
          ELSE IF \E m \in ALL_MAPS : v_in = m \o MAP_RESTART_SUFFIX
          THEN /\ map_out.status = "ok"
               /\ map_out.raw_name \o MAP_RESTART_SUFFIX = v_in
               /\ map_out.raw_name # v_in
          ELSE IF v_in \in ALL_MAPS
          THEN map_out = Accepted(v_in)
          ELSE map_out = InvalidMapName

C5_Witness ==
    /\ v_in = FOY \o MAP_RESTART_SUFFIX
    /\ map_out = Accepted(FOY)

----------------------------------------------------------------------------
(* Properties of the renderers, checked under Spec *)

AllFetchesSucceeded == \A k \in 1..Len(calls) : calls[k].result = "ok"

Endpoints == [k \in 1..Len(calls) |-> calls[k].endpoint]

\* the configuration passes the validators of models.py
ValidConfig ==
    /\ renderer = "header" => ValidHeaderConfig(config)
    /\ renderer = "gamestate" => ValidGamestateConfig(config)

\* C7: every call of a renderer whose fetches all succeed on a valid
\* configuration returns a pair (text, embed) with exactly one of the two
\* populated.
C7_ExactlyOnePopulated ==
    (pc = "done" /\ AllFetchesSucceeded /\ ValidConfig)
    => /\ out.outcome = "returned"
       /\ (Len(out.text) = 1) # (Len(out.embed) = 1)

\* C8: the colour renderer fetches the map rotation, then the game state,
\* and returns a text holding one fenced block per rotation entry, in
\* rotation order, styled current, else next, else other by the positions.
C8_ColorBlocks ==
    (renderer = "color" /\ pc = "done" /\ AllFetchesSucceeded)
    => /\ Endpoints = <<"get_map_rotation", "get_gamestate">>
       /\ out.outcome = "returned"
       /\ Len(out.text) = 1
       /\ out.text[1] = color_blocks(map_rotation, current_map_positions,
                                     next_map_positions, 0)

\* C9: the embed renderer gives one description line per rotation entry, in
\* rotation order, from the entry's display name and its 1-based position,
\* with the current-map template if the index is a current position, else
\* the next-map template if it is a next position, else the other-map
\* template; an index in both sets is rendered as current.
C9_DescriptionLines ==
    (renderer = "embed" /\ out.outcome = "returned")
    => LET description == out.embed[1].fields[1].value
           n == Len(map_rotation)
           role(i) == IF i \in Range(current_map_positions) THEN "current_map"
                      ELSE IF i \in Range(next_map_positions) THEN "next_map"
                      ELSE "other_map"
       IN  /\ Len(out.embed[1].fields) = 1
           /\ Len(description) = n + (IF config.display_legend THEN 1 ELSE 0)
           /\ \A i \in 0..(n - 1) :
                 /\ description[i + 1].template = role(i)
                 /\ description[i + 1].name = LongName(map_rotation[i + 1])
                 /\ description[i + 1].number = i + 1
           /\ \A k \in (n + 1)..Len(description) :
                 description[k].template = "legend"

C9_Witness ==
    /\ renderer = "embed"
    /\ out.outcome = "returned"
    /\ Len(map_rotation) = 1
    /\ current_map_positions = <<0>>
    /\ next_map_positions = <<0>>
    /\ out.embed[1].fields[1].value[1] = Line("current_map", map_rotation[1], 0)

\* C10: a render that receives a selector outside its vocabulary (a
\* game-state field kind, a header field selector, the header display-name
\* selector) ends in an error and returns nothing; none returns normally.
C10_FailsLoudly ==
    out.outcome = "returned" => ValidConfig

\* C11: in every renderer a failed fetch ends the render with the error
\* surfaced to the caller: the failed fetch is the last call of the render
\* (not issued again, no later fetch issued) and neither text nor embed is
\* returned.
C11_FetchFailureSurfaces ==
    \A k \in 1..Len(calls) :
        calls[k].result # "ok"
        => /\ k = Len(calls)
           /\ \A j \in 1..(k - 1) : calls[j].result = "ok"
           /\ pc = "done"
           /\ out.outcome = "raised"
           /\ out.error # ""
           /\ calls[k].result = "raise" => out.error = "FetchError"
           /\ out.text = <<>>
           /\ out.embed = <<>>

C11_Witness ==
    /\ renderer = "gamestate"
    /\ config.embeds = <<"slots", "slots">>
    /\ Len(calls) = 2
    /\ calls[1].result = "ok"
    /\ calls[2] = Call("get_slots", "raise")
    /\ pc = "done"
    /\ out = Raised("FetchError")

----------------------------------------------------------------------------
(* Further properties of the estimator, checked under SpecGuess *)

\* C12 as stated: for a non-sentinel current map every position returned is
\* a valid index of the rotation whose entry is the current map, and the
\* list is empty when the current map does not occur in the rotation.
C12_PositionsHoldCurrent ==
    (est.pc # "args" /\ est.current_map # BETWEEN_MATCHES_MAP_NAME)
    => /\ \A k \in 1..Len(est.current_map_positions) :
             /\ est.current_map_positions[k] \in 0..(Len(est.rotation) - 1)
             /\ est.rotation[est.current_map_positions[k] + 1] = est.current_map
       /\ ~Occurs(est.rotation, est.current_map)
             => est.current_map_positions = <<>>

\* C12 as amended: for a non-sentinel current map every position returned
\* is a valid index of the rotation; its entry is the current map when the
\* current map occurs exactly once, and otherwise the entry after it
\* (wrapping) is the next map, one position per occurrence of the next map;
\* so when the current map does not occur in the rotation the list is empty
\* exactly when the next map does not occur either.
C12_PositionsAmended ==
    (est.pc # "args" /\ est.current_map # BETWEEN_MATCHES_MAP_NAME)
    => LET n == Len(est.rotation)
           positions == est.current_map_positions
       IN  /\ \A k \in 1..Len(positions) :
                 /\ positions[k] \in 0..(n - 1)
                 /\ IF count(est.rotation, est.current_map) = 1
                    THEN est.rotation[positions[k] + 1] = est.current_map
                    ELSE est.rotation[((positions[k] + 1) % n) + 1] = est.next_map
           /\ count(est.rotation, est.current_map) # 1
                 => Len(positions) = count(est.rotation, est.next_map)
           /\ ~Occurs(est.rotation, est.current_map)
                 => (positions = <<>> <=> ~Occurs(est.rotation, est.next_map))

C12_Witness ==
    /\ est.pc # "args"
    /\ est.current_map # BETWEEN_MATCHES_MAP_NAME
    /\ ~Occurs(est.rotation, est.current_map)
    /\ Len(est.rotation) = 2
    /\ est.rotation[2] = est.next_map
    /\ est.current_map_positions = <<0>>
    /\ est.rotation[1] # est.current_map

====
